---- MODULE Spec2Model ----
(***************************************************************************)
(* Model of the crossword constraint-satisfaction engine of                *)
(* src/generate.py (class CrosswordCreator): node consistency, revise,     *)
(* AC-3 and the backtracking search, driven by a client that constructs a  *)
(* CrosswordCreator and calls its public methods.                          *)
(*                                                                         *)
(* Words are sequences of one-letter strings.  Python indexes from 0 and   *)
(* TLA+ from 1: overlap offsets are kept 0-based as in the program and     *)
(* one is added where a word is indexed.                                   *)
(***************************************************************************)
EXTENDS Integers, Sequences, FiniteSets, TLC

\* ------------------------------------------------------------------ bounds

\* Largest vocabulary (number of words of WordPool) a puzzle is built with.
MaxWords == 4

\* Largest explicit arc set a client hands to ac3(arcs).
MaxArcs == 2

\* ------------------------------------------------------- geometry provider

ACROSS == "across"

DOWN == "down"

\* Python's None, where an overlap is looked up.  An overlap is a pair, so the
\* empty tuple is the one tuple that is falsy like None.
None == <<>>

\* The words a vocabulary is drawn from.
WordPool ==
    { <<"c", "a", "t">>, <<"a", "r", "t">>, <<"a", "t", "e">>,
      <<"t", "o", "t">>, <<"r", "a", "t">>, <<"c", "o">> }

\* A slot (crossword Variable): start row, start column, direction, length.
Variable(i, j, direction, length) ==
    [i |-> i, j |-> j, direction |-> direction, length |-> length]

\* The slots a puzzle is drawn from, on a 3x3 grid:
\*   row 0 across (3), column 1 down (3), row 2 across (3), column 0 down (2).
SlotPool ==
    { Variable(0, 0, ACROSS, 3), Variable(0, 1, DOWN, 3),
      Variable(2, 0, ACROSS, 3), Variable(0, 0, DOWN, 2) }

\* The cells a slot covers, in word order.
Cells(v) ==
    [k \in 1..v.length |->
        IF v.direction = DOWN THEN <<v.i + (k - 1), v.j>>
                              ELSE <<v.i, v.j + (k - 1)>>]

\* crossword.overlaps[x, y]: None, or the 0-based offsets (in x's word, in y's
\* word) of the cell the two slots share.
overlaps(x, y) ==
    LET cx == Cells(x)
        cy == Cells(y)
        common == {cx[k] : k \in 1..Len(cx)} \cap {cy[k] : k \in 1..Len(cy)}
    IN  IF common = {} THEN None
        ELSE LET c == CHOOSE c \in common : TRUE
             IN  << (CHOOSE k \in 1..Len(cx) : cx[k] = c) - 1,
                    (CHOOSE k \in 1..Len(cy) : cy[k] = c) - 1 >>

\* crossword.neighbors(var): the other slots with a defined overlap with var.
neighbors(variables, var) ==
    {v \in variables : v /= var /\ overlaps(v, var) /= None}

\* The slot sets puzzles are built on: every proper subset of the pool.
Puzzles == (SUBSET SlotPool) \ {SlotPool}

\* A puzzle: the slot set and the vocabulary (crossword.variables, .words).
Crosswords ==
    { [variables |-> S, words |-> W] :
        S \in Puzzles,
        W \in {W \in SUBSET WordPool : Cardinality(W) <= MaxWords} }

\* -------------------------------------------------------------- the engine

\* CrosswordCreator.__init__: every slot's domain is a copy of the vocabulary.
InitDomains(cw) == [var \in cw.variables |-> cw.words]

\* Faulty variant: only words shorter than the slot are removed.
enforce_node_consistency_shorter(variables, doms) ==
    [var \in variables |->
        doms[var] \ {word \in doms[var] : Len(word) < var.length}]

\* Faulty variant: one pass of removal that stops at the first mismatch of a slot.
enforce_node_consistency_first(variables, doms) ==
    [var \in variables |->
        LET to_remove == {word \in doms[var] : Len(word) /= var.length}
        IN  IF to_remove = {} THEN doms[var]
            ELSE doms[var] \ {CHOOSE w \in to_remove : TRUE}]

\* enforce_node_consistency: the domains with, for every slot, the words whose
\* length differs from the slot's length removed.
enforce_node_consistency(variables, doms) ==
    [var \in variables |->
        LET to_remove == {word \in doms[var] : Len(word) /= var.length}
        IN  doms[var] \ to_remove]

\* Whether revise(x, y) raises IndexError: some pair p /= q is compared at an
\* offset beyond the end of p or of q.  Nothing has been removed at that point.
revise_raises(doms, x, y) ==
    LET overlapPoint == overlaps(x, y)
    IN  /\ overlapPoint /= None
        /\ \E p \in doms[x] : \E q \in doms[y] :
              /\ p /= q
              /\ \/ overlapPoint[1] >= Len(p)
                 \/ overlapPoint[2] >= Len(q)

\* Faulty variant: a word counts as its own support.
revise_self(doms, x, y) ==
    LET overlapPoint == overlaps(x, y)
    IN  IF overlapPoint = None
        THEN [domains |-> doms, revised |-> FALSE]
        ELSE LET compatible(p) ==
                     Cardinality({q \in doms[y] :
                         /\ overlapPoint[1] < Len(p)
                         /\ overlapPoint[2] < Len(q)
                         /\ p[overlapPoint[1] + 1] = q[overlapPoint[2] + 1]})
                 to_remove == {p \in doms[x] : compatible(p) = 0}
             IN  [domains |-> [doms EXCEPT ![x] = @ \ to_remove],
                  revised |-> to_remove /= {}]

\* Faulty variant: any other word of y's domain supports a word, whatever
\* its letters.
revise_any_other(doms, x, y) ==
    LET overlapPoint == overlaps(x, y)
    IN  IF overlapPoint = None
        THEN [domains |-> doms, revised |-> FALSE]
        ELSE LET compatible(p) == Cardinality({q \in doms[y] : p /= q})
                 to_remove == {p \in doms[x] : compatible(p) = 0}
             IN  [domains |-> [doms EXCEPT ![x] = @ \ to_remove],
                  revised |-> to_remove /= {}]

\* Faulty variant: the two offsets of the overlap are taken the wrong way round.
revise_swapped(doms, x, y) ==
    LET overlapPoint == overlaps(x, y)
    IN  IF overlapPoint = None
        THEN [domains |-> doms, revised |-> FALSE]
        ELSE LET compatible(p) ==
                     Cardinality({q \in doms[y] :
                         /\ p /= q
                         /\ overlapPoint[2] < Len(p)
                         /\ overlapPoint[1] < Len(q)
                         /\ p[overlapPoint[2] + 1] = q[overlapPoint[1] + 1]})
                 to_remove == {p \in doms[x] : compatible(p) = 0}
             IN  [domains |-> [doms EXCEPT ![x] = @ \ to_remove],
                  revised |-> to_remove /= {}]

\* revise(x, y): the domains after the call and the value returned.
revise(doms, x, y) ==
    LET overlapPoint == overlaps(x, y)
    IN  IF overlapPoint = None
        THEN [domains |-> doms, revised |-> FALSE]
        ELSE LET compatible(p) ==
                     Cardinality({q \in doms[y] :
                         /\ p /= q
                         /\ p[overlapPoint[1] + 1] = q[overlapPoint[2] + 1]})
                 to_remove == {p \in doms[x] : compatible(p) = 0}
             IN  [domains |-> [doms EXCEPT ![x] = @ \ to_remove],
                  revised |-> to_remove /= {}]

\* ac3 with arcs = None: all ordered pairs of distinct slots.
DefaultArcs(variables) ==
    {<<x, y>> : x \in variables, y \in variables} \
        {<<x, x>> : x \in variables}

\* Faulty variant: a revision re-enqueues nothing.
Requeue_none(variables, a) == {}

\* The arcs ac3 adds after a revision of a[0] that left it non-empty.
Requeue(variables, a) ==
    UNION { {<<n, a[1]>>, <<a[1], n>>} :
              n \in neighbors(variables, a[1]) \ {a[2]} }

\* Faulty variant: the final scan is left out.
Ac3FinalResult_noscan(variables, doms) == "True"

\* Faulty variant: the final scan also rejects a domain of one word.
Ac3FinalResult_atmost1(variables, doms) ==
    IF \E var \in variables : Cardinality(doms[var]) <= 1
    THEN "False" ELSE "True"

\* The final scan of ac3: False if some domain is empty.
Ac3FinalResult(variables, doms) ==
    IF \E var \in variables : doms[var] = {} THEN "False" ELSE "True"

\* Python's truth value of an overlap entry: None is false, a pair is true.
Truthy(o) == Len(o) /= 0

\* The empty assignment, dict().
EmptyAssignment == [v \in {} |-> <<>>]

\* Faulty variant: the copy is not given the new binding.
Extend_nothing(assignment, var, val) == assignment

\* new_assignment = assignment.copy(); new_assignment[var] = val
Extend(assignment, var, val) == (var :> val) @@ assignment

\* assignment_complete(assignment): as many entries as the puzzle has slots.
assignment_complete(variables, assignment) ==
    IF Cardinality(variables) /= Cardinality(DOMAIN assignment)
    THEN FALSE ELSE TRUE

\* Faulty variant: the word of a lone or crossing slot is not compared with the other's.
consistent_no_overlap(assignment) ==
    \A var0 \in DOMAIN assignment : \A var1 \in DOMAIN assignment :
        var0 /= var1 =>
            /\ assignment[var0] /= assignment[var1]
            /\ Len(assignment[var0]) = var0.length

\* Faulty variant: two slots may hold the same word.
consistent_no_distinct(assignment) ==
    \A var0 \in DOMAIN assignment : \A var1 \in DOMAIN assignment :
        var0 /= var1 =>
            /\ Len(assignment[var0]) = var0.length
            /\ Truthy(overlaps(var0, var1)) =>
                  LET overlapPoint == overlaps(var0, var1)
                  IN  assignment[var0][overlapPoint[1] + 1] =
                          assignment[var1][overlapPoint[2] + 1]

\* consistent(assignment): no ordered pair of distinct assigned slots holds the
\* same word, a word of the wrong length for the first, or disagreeing letters
\* at an overlap.
consistent(assignment) ==
    \A var0 \in DOMAIN assignment : \A var1 \in DOMAIN assignment :
        var0 /= var1 =>
            /\ assignment[var0] /= assignment[var1]
            /\ Len(assignment[var0]) = var0.length
            /\ Truthy(overlaps(var0, var1)) =>
                  LET overlapPoint == overlaps(var0, var1)
                  IN  assignment[var0][overlapPoint[1] + 1] =
                          assignment[var1][overlapPoint[2] + 1]

\* A Python list built from the elements a comprehension or loop yields: the
\* sequence with every element computed.
list(f) == f \o <<>>

\* itemgetter(item) applied to the tuple t (items count from 0).
itemgetter(item, t) == t[item + 1]

\* Python's sorted(seq, key=itemgetter(item), reverse=reverse): a stable sort,
\* also when reversed (equal keys keep their order in seq).  The argument is
\* evaluated once, before the call: s is its value.
sorted(seq, item, reverse) ==
    LET sort(s) ==
            LET n == Len(s)
                key(k) == itemgetter(item, s[k])
                Earlier(m, k) ==
                    \/ IF reverse THEN key(m) > key(k) ELSE key(m) < key(k)
                    \/ key(m) = key(k) /\ m < k
                rank(k) == Cardinality({m \in 1..n : Earlier(m, k)}) + 1
            IN  list([p \in 1..n |-> s[CHOOSE k \in 1..n : rank(k) = p]])
    IN  CHOOSE out \in {sort(s) : s \in {seq}} : TRUE

\* Faulty variant: the first sort is descending too, so that ties in domain
\* size go to the slot of lowest degree.
select_unassigned_variable_lowdegree(variables, doms, order, assignment) ==
    LET unassigned ==
            SelectSeq(order, LAMBDA var : var \notin DOMAIN assignment)
        unsorted == list([k \in 1..Len(unassigned) |->
                        << unassigned[k],
                           Cardinality(doms[unassigned[k]]),
                           Cardinality(neighbors(variables, unassigned[k])) >>])
        byDegree == sorted(unsorted, 2, TRUE)
        sortList == sorted(byDegree, 1, TRUE)
    IN  sortList[Len(sortList)][1]

\* select_unassigned_variable(assignment); order is the iteration order of the
\* dict self.domains.
select_unassigned_variable(variables, doms, order, assignment) ==
    LET unassigned ==
            SelectSeq(order, LAMBDA var : var \notin DOMAIN assignment)
        unsorted == list([k \in 1..Len(unassigned) |->
                        << unassigned[k],
                           Cardinality(doms[unassigned[k]]),
                           Cardinality(neighbors(variables, unassigned[k])) >>])
        byDegree == sorted(unsorted, 2, FALSE)
        sortList == sorted(byDegree, 1, TRUE)
    IN  sortList[Len(sortList)][1]

\* The orders in which a dict keyed by the set S can iterate.
Orders(S) ==
    {o \in [1..Cardinality(S) -> S] : \A v \in S : \E k \in DOMAIN o : o[k] = v}

\* A frame of backtrack: its argument, the slot it selected, the values of the
\* slot's domain its loop has not reached yet, and where it is: "enter" (not
\* yet past the completeness test), "loop" (between iterations) or "wait" (in
\* a recursive call).
Frame(assignment, var, todo, at) ==
    [assignment |-> assignment, var |-> var, todo |-> todo, at |-> at]

\* Placeholder for the slot of a frame that has not selected one.
NoVar == Variable(0 - 1, 0 - 1, "none", 0)

\* Return values of backtrack and solve.
Pending == [kind |-> "pending", value |-> EmptyAssignment]

ReturnNone == [kind |-> "None", value |-> EmptyAssignment]

ReturnAssignment(a) == [kind |-> "assignment", value |-> a]

\* A call of order_domain_values and how it ended: kind is "-" (no call),
\* "list" (value was returned) or the name of the exception raised.
Odv(var, assignment, kind, value) ==
    [var |-> var, assignment |-> assignment, kind |-> kind, value |-> value]

NoOdv == Odv(NoVar, EmptyAssignment, "-", <<>>)

\* order_domain_values(var, assignment): how the call ends.
\*   lines 277-280: removing an assigned neighbor from the set being iterated
\*     makes the next step of the iteration raise RuntimeError;
\*   lines 285-298: the counts are computed, and indexing a word beyond its
\*     end raises IndexError;
\*   line 301: sorted(unsorted, ...) names a variable the function does not
\*     have (its list is called unordered) and raises NameError.
\* No path reaches the return at line 307.
order_domain_values(variables, doms, var, assignment) ==
    LET neighborSet == neighbors(variables, var)
    IN  IF \E neighbor \in neighborSet : neighbor \in DOMAIN assignment
        THEN [kind |-> "RuntimeError", value |-> <<>>]
        ELSE IF \E val \in doms[var] : \E n \in neighborSet :
                   \E v \in doms[n] :
                       LET overlap == overlaps(var, n)
                       IN  overlap[1] >= Len(val) \/ overlap[2] >= Len(v)
             THEN [kind |-> "IndexError", value |-> <<>>]
             ELSE [kind |-> "NameError", value |-> <<>>]

\* The assignments the search can hold when it would order the values of var:
\* words of their domains for some of the other slots.
PartialAssignments(variables, doms, var) ==
    UNION { {a \in [S -> UNION {doms[s] : s \in S}] :
                \A s \in S : a[s] \in doms[s]} :
            S \in SUBSET (variables \ {var}) }

\* consistent, lines 250-261: one pass of the loop body for the ordered pair
\* (var0, var1) of distinct slots: "False" when it returns False, "IndexError"
\* when the comparison at line 260 indexes var1's word beyond its end (var0's
\* word has var0.length letters there), "next" when the loop goes on.
\* Faulty variant: an overlap at offsets (0, 0) counts as no overlap.
consistent_pair_falsy00(assignment, var0, var1) ==
    LET overlapPoint == overlaps(var0, var1)
    IN  IF assignment[var0] = assignment[var1] THEN "False"
        ELSE IF Len(assignment[var0]) /= var0.length THEN "False"
        ELSE IF ~ (Truthy(overlapPoint) /\ overlapPoint /= <<0, 0>>)
             THEN "next"
        ELSE IF overlapPoint[2] >= Len(assignment[var1]) THEN "IndexError"
        ELSE IF assignment[var0][overlapPoint[1] + 1] /=
                    assignment[var1][overlapPoint[2] + 1] THEN "False"
        ELSE "next"

consistent_pair(assignment, var0, var1) ==
    LET overlapPoint == overlaps(var0, var1)
    IN  IF assignment[var0] = assignment[var1] THEN "False"
        ELSE IF Len(assignment[var0]) /= var0.length THEN "False"
        ELSE IF ~ Truthy(overlapPoint) THEN "next"
        ELSE IF overlapPoint[2] >= Len(assignment[var1]) THEN "IndexError"
        ELSE IF assignment[var0][overlapPoint[1] + 1] /=
                    assignment[var1][overlapPoint[2] + 1] THEN "False"
        ELSE "next"

\* consistent(assignment) on a dict that iterates in the order keys: the
\* outcome of the first pair, in the order of the two nested loops, that does
\* not go on; "True" when every pair goes on (line 263).
consistent_outcome(keys, assignment) ==
    LET n == Len(keys)
        pairs == {<<a, b>> \in (1..n) \X (1..n) : keys[a] /= keys[b]}
        outcome(pr) == consistent_pair(assignment, keys[pr[1]], keys[pr[2]])
        earlier(p, q) == p[1] < q[1] \/ (p[1] = q[1] /\ p[2] < q[2])
        stops == {pr \in pairs : outcome(pr) /= "next"}
    IN  IF stops = {} THEN "True"
        ELSE outcome(CHOOSE pr \in stops :
                        \A other \in stops \ {pr} : earlier(pr, other))

\* A direct call of consistent: the dict passed, the order it iterates in, and
\* how the call ended ("-" when there has been no call).
Cons(assignment, keys, ret) ==
    [assignment |-> assignment, keys |-> keys, ret |-> ret]

NoCons == Cons(EmptyAssignment, <<>>, "-")

\* The dicts a client can pass to consistent: some slots of the puzzle, each
\* with a word of the vocabulary.
Assignments(cw) ==
    UNION { [S -> cw.words] : S \in SUBSET cw.variables }

\* ac3's working list: on when the client handed ac3 a list (the type the
\* docstring of ac3 names), items the arcs it holds, the next to pop last.
ListArcs(on, items) == [on |-> on, items |-> items]

NoList == ListArcs(FALSE, <<>>)

\* The lists of at most MaxArcs arcs a client can hand to ac3; an arc can
\* occur twice.
ArcLists(variables) ==
    UNION { [1..n -> DefaultArcs(variables)] : n \in 0..MaxArcs }

\* ------------------------------------------------------------------- state

VARIABLES
    crossword,   \* the puzzle the creator was constructed on
    domains,     \* self.domains
    pc,          \* where the client / the running method is
    caller,      \* who called the running method: "client" or "solve"
    arcs,        \* ac3's working set, when it is a set
    arcsList,    \* ac3's working list, when the client handed ac3 a list
    ac3Default,  \* whether the running / last ac3 call had arcs = None
    ac3ret,      \* value returned by the last ac3 call: "True", "False", "-"
    call,        \* the revise call just finished: <<x, y>>, or <<>>
    reviseRet,   \* value returned by the last direct revise call
    before,      \* the domains when the running / last method was entered
    nodeDone,    \* enforce_node_consistency has run on these domains
    lastNode,    \* the previous completed client call was enforce_node_consistency
    order,       \* iteration order of the dict self.domains
    stack,       \* the frames of backtrack, outermost first
    btret,       \* value returned by the backtrack call that just returned
    result,      \* value returned by solve
    odv,         \* the last call of order_domain_values and how it ended
    cons         \* the last direct call of consistent and how it ended

vars ==
    << crossword, domains, pc, caller, arcs, arcsList, ac3Default, ac3ret,
       call, reviseRet, before, nodeDone, lastNode, order, stack, btret, result,
       odv, cons >>

\* The variables of the search.
searchVars == <<order, stack, btret, result>>

Init ==
    /\ crossword \in Crosswords
    /\ domains = InitDomains(crossword)
    /\ pc = "idle"
    /\ caller = "client"
    /\ arcs = {}
    /\ ac3Default = FALSE
    /\ ac3ret = "-"
    /\ call = <<>>
    /\ reviseRet = "-"
    /\ before = domains
    /\ nodeDone = FALSE
    /\ lastNode = FALSE
    /\ order = <<>>
    /\ stack = <<>>
    /\ btret = Pending
    /\ result = Pending
    /\ odv = NoOdv
    /\ cons = NoCons
    /\ arcsList = NoList

\* The client calls enforce_node_consistency().
EnforceNodeConsistency ==
    /\ pc = "idle"
    /\ before' = domains
    /\ domains' = enforce_node_consistency(crossword.variables, domains)
    /\ nodeDone' = TRUE
    /\ pc' = "node_done"
    /\ UNCHANGED <<arcsList, cons, odv, crossword, caller, arcs, ac3Default,
                   ac3ret, call, reviseRet, lastNode, searchVars>>

\* The client calls revise(x, y) on two distinct slots.
Revise ==
    /\ pc = "idle"
    /\ \E x \in crossword.variables : \E y \in crossword.variables \ {x} :
          /\ before' = domains
          /\ call' = <<x, y>>
          /\ IF revise_raises(domains, x, y)
             THEN /\ pc' = "raised"
                  /\ UNCHANGED <<domains, reviseRet>>
             ELSE LET r == revise(domains, x, y)
                  IN  /\ domains' = r.domains
                      /\ reviseRet' = IF r.revised THEN "True" ELSE "False"
                      /\ pc' = "revise_done"
    /\ UNCHANGED <<arcsList, cons, odv, crossword, caller, arcs, ac3Default,
                   ac3ret, nodeDone, lastNode, searchVars>>

\* The client calls ac3(), or ac3(arcs) with a set or a list: the working set
\* is built (lines 187-193), or the object handed over is the working
\* collection.
Ac3Call ==
    /\ pc = "idle"
    /\ \/ /\ ac3Default' = TRUE
          /\ arcs' = DefaultArcs(crossword.variables)
          /\ arcsList' = NoList
       \/ /\ ac3Default' = FALSE
          /\ \E given \in SUBSET DefaultArcs(crossword.variables) :
                /\ Cardinality(given) <= MaxArcs
                /\ arcs' = given
          /\ arcsList' = NoList
       \/ /\ ac3Default' = FALSE
          /\ arcs' = {}
          /\ \E given \in ArcLists(crossword.variables) :
                arcsList' = ListArcs(TRUE, list(given))
    /\ before' = domains
    /\ caller' = "client"
    /\ ac3ret' = "-"
    /\ pc' = "ac3"
    /\ UNCHANGED <<cons, odv, crossword, domains, call, reviseRet, nodeDone,
                   lastNode, searchVars>>

\* Where ac3 returns to.
Ac3ReturnPc == IF caller = "client" THEN "ac3_done" ELSE "backtrack"

\* One iteration of ac3's while loop: pop any arc, revise, then stop on an
\* empty domain or re-enqueue.
Ac3Iterate ==
    /\ pc = "ac3"
    /\ arcs /= {}
    /\ \E a \in arcs :
          IF revise_raises(domains, a[1], a[2])
          THEN /\ pc' = "raised"
               /\ arcs' = {}
               /\ UNCHANGED <<domains, ac3ret>>
          ELSE LET r == revise(domains, a[1], a[2])
               IN  /\ domains' = r.domains
                   /\ IF r.revised /\ r.domains[a[1]] = {}
                      THEN /\ ac3ret' = "False"
                           /\ arcs' = {}
                           /\ pc' = Ac3ReturnPc
                      ELSE /\ arcs' = IF r.revised
                                      THEN (arcs \ {a}) \cup
                                           Requeue(crossword.variables, a)
                                      ELSE arcs \ {a}
                           /\ UNCHANGED <<ac3ret, pc>>
    /\ UNCHANGED <<arcsList, cons, odv, crossword, caller, ac3Default, call,
                   reviseRet, before, nodeDone, lastNode, searchVars>>

\* One iteration of ac3's while loop on a list: list.pop() takes the last
\* arc; after a revision that leaves the domain non-empty, the first
\* arcs.add (line 213), reached when the slot has a neighbor other than a[1],
\* raises AttributeError, a list having no add.
Ac3IterateList ==
    /\ pc = "ac3"
    /\ arcsList.on
    /\ arcsList.items /= <<>>
    /\ LET a == arcsList.items[Len(arcsList.items)]
           rest == SubSeq(arcsList.items, 1, Len(arcsList.items) - 1)
       IN  IF revise_raises(domains, a[1], a[2])
           THEN /\ pc' = "raised"
                /\ arcsList' = ListArcs(TRUE, <<>>)
                /\ UNCHANGED <<domains, ac3ret>>
           ELSE LET r == revise(domains, a[1], a[2])
                IN  /\ domains' = r.domains
                    /\ IF r.revised /\ r.domains[a[1]] = {}
                       THEN /\ ac3ret' = "False"
                            /\ arcsList' = ListArcs(TRUE, <<>>)
                            /\ pc' = Ac3ReturnPc
                       ELSE IF /\ r.revised
                               /\ neighbors(crossword.variables, a[1]) \
                                     {a[2]} /= {}
                            THEN /\ pc' = "raised"
                                 /\ arcsList' = ListArcs(TRUE, <<>>)
                                 /\ UNCHANGED ac3ret
                            ELSE /\ arcsList' = ListArcs(TRUE, rest)
                                 /\ UNCHANGED <<ac3ret, pc>>
    /\ UNCHANGED <<cons, odv, crossword, caller, arcs, ac3Default, call,
                   reviseRet, before, nodeDone, lastNode, searchVars>>

\* The working set is empty: the final scan of the domains and the return.
Ac3Return ==
    /\ pc = "ac3"
    /\ arcs = {}
    /\ arcsList.items = <<>>
    /\ ac3ret' = Ac3FinalResult(crossword.variables, domains)
    /\ pc' = Ac3ReturnPc
    /\ UNCHANGED <<arcsList, cons, odv, crossword, domains, caller, arcs,
                   ac3Default, call, reviseRet, before, nodeDone, lastNode,
                   searchVars>>

\* solve(), line 93: the client calls solve, which enforces node consistency.
Solve ==
    /\ pc = "idle"
    /\ before' = domains
    /\ domains' = enforce_node_consistency(crossword.variables, domains)
    /\ nodeDone' = TRUE
    /\ caller' = "solve"
    /\ pc' = "solve_ac3"
    /\ UNCHANGED <<arcsList, cons, odv, crossword, arcs, ac3Default, ac3ret,
                   call, reviseRet, lastNode, searchVars>>

\* solve(), line 94: self.ac3() with arcs = None; its result is not used.
SolveAc3 ==
    /\ pc = "solve_ac3"
    /\ arcs' = DefaultArcs(crossword.variables)
    /\ ac3Default' = TRUE
    /\ ac3ret' = "-"
    /\ before' = domains
    /\ pc' = "ac3"
    /\ UNCHANGED <<arcsList, cons, odv, crossword, domains, caller, call,
                   reviseRet, nodeDone, lastNode, searchVars>>

\* solve(), line 95: self.backtrack(dict()).  The iteration order of the dict
\* self.domains, fixed since construction, is first read by the search and is
\* drawn here.
SolveBacktrack ==
    /\ pc = "backtrack"
    /\ order' \in Orders(crossword.variables)
    /\ stack' = <<Frame(EmptyAssignment, NoVar, {}, "enter")>>
    /\ btret' = Pending
    /\ before' = domains
    /\ pc' = "search"
    /\ UNCHANGED <<arcsList, cons, odv, crossword, domains, caller, arcs,
                   ac3Default, ac3ret, call, reviseRet, nodeDone, lastNode,
                   result>>

\* The running (innermost) frame of backtrack.
Top == stack[Len(stack)]

\* The stack with its innermost frame replaced by f.
WithTop(f) == [stack EXCEPT ![Len(stack)] = f]

\* The innermost call of backtrack returns v: to its caller's frame, or, from
\* the outermost call, as the value of solve.
BacktrackReturns(v) ==
    /\ stack' = SubSeq(stack, 1, Len(stack) - 1)
    /\ btret' = v
    /\ IF Len(stack) = 1
       THEN pc' = "solve_done" /\ result' = v
       ELSE UNCHANGED <<pc, result>>

\* backtrack, lines 352-356: return a complete assignment, or select a slot
\* and start the loop over its domain.
BacktrackEnter ==
    /\ pc = "search"
    /\ Top.at = "enter"
    /\ IF assignment_complete(crossword.variables, Top.assignment)
       THEN BacktrackReturns(ReturnAssignment(Top.assignment))
       ELSE LET var == select_unassigned_variable(crossword.variables,
                           domains, order, Top.assignment)
            IN  /\ stack' = WithTop(Frame(Top.assignment, var,
                                          domains[var], "loop"))
                /\ UNCHANGED <<pc, btret, result>>
    /\ UNCHANGED <<arcsList, cons, odv, crossword, domains, caller, arcs,
                   ac3Default, ac3ret, call, reviseRet, before, nodeDone,
                   lastNode, order>>

\* Faulty variant: a value whose extension is inconsistent is struck from the
\* slot's domain.
BacktrackTry_shrinks ==
    /\ pc = "search"
    /\ Top.at = "loop"
    /\ \E val \in Top.todo :
          LET new_assignment == Extend(Top.assignment, Top.var, val)
              rest == Top.todo \ {val}
          IN  IF consistent(new_assignment)
              THEN /\ stack' = Append(
                          WithTop(Frame(Top.assignment, Top.var, rest,
                                        "wait")),
                          Frame(new_assignment, NoVar, {}, "enter"))
                   /\ UNCHANGED domains
              ELSE /\ stack' = WithTop(Frame(Top.assignment, Top.var, rest,
                                             "loop"))
                   /\ domains' = [domains EXCEPT ![Top.var] = @ \ {val}]
    /\ UNCHANGED <<arcsList, cons, odv, crossword, pc, caller, arcs,
                   ac3Default, ac3ret, call, reviseRet, before, nodeDone,
                   lastNode, order, btret, result>>

\* Faulty variant: the binding is written into the caller's own dict, which
\* is passed on without being copied.
BacktrackTry_nocopy ==
    /\ pc = "search"
    /\ Top.at = "loop"
    /\ \E val \in Top.todo :
          LET new_assignment == Extend(Top.assignment, Top.var, val)
              rest == Top.todo \ {val}
          IN  IF consistent(new_assignment)
              THEN stack' = Append(
                       WithTop(Frame(new_assignment, Top.var, rest, "wait")),
                       Frame(new_assignment, NoVar, {}, "enter"))
              ELSE stack' = WithTop(Frame(new_assignment, Top.var, rest,
                                          "loop"))
    /\ UNCHANGED <<arcsList, cons, odv, crossword, domains, pc, caller, arcs,
                   ac3Default, ac3ret, call, reviseRet, before, nodeDone,
                   lastNode, order, btret, result>>

\* backtrack, lines 358-366: one iteration of the loop, on any value the loop
\* has not reached (a set iterates in no particular order): recur on the
\* extended copy if it is consistent.
BacktrackTry ==
    /\ pc = "search"
    /\ Top.at = "loop"
    /\ \E val \in Top.todo :
          LET new_assignment == Extend(Top.assignment, Top.var, val)
              rest == Top.todo \ {val}
          IN  IF consistent(new_assignment)
              THEN stack' = Append(
                       WithTop(Frame(Top.assignment, Top.var, rest, "wait")),
                       Frame(new_assignment, NoVar, {}, "enter"))
              ELSE stack' = WithTop(Frame(Top.assignment, Top.var, rest,
                                          "loop"))
    /\ UNCHANGED <<arcsList, cons, odv, crossword, domains, pc, caller, arcs,
                   ac3Default, ac3ret, call, reviseRet, before, nodeDone,
                   lastNode, order, btret, result>>

\* backtrack, lines 367-368: the recursive call has returned; pass a result
\* up, or go on with the loop.
BacktrackResume ==
    /\ pc = "search"
    /\ Top.at = "wait"
    /\ IF btret.kind /= "None"
       THEN BacktrackReturns(btret)
       ELSE /\ stack' = WithTop(Frame(Top.assignment, Top.var, Top.todo,
                                      "loop"))
            /\ btret' = Pending
            /\ UNCHANGED <<pc, result>>
    /\ UNCHANGED <<arcsList, cons, odv, crossword, domains, caller, arcs,
                   ac3Default, ac3ret, call, reviseRet, before, nodeDone,
                   lastNode, order>>

\* backtrack, line 369: the loop has run out of values.
BacktrackExhausted ==
    /\ pc = "search"
    /\ Top.at = "loop"
    /\ Top.todo = {}
    /\ BacktrackReturns(ReturnNone)
    /\ UNCHANGED <<arcsList, cons, odv, crossword, domains, caller, arcs,
                   ac3Default, ac3ret, call, reviseRet, before, nodeDone,
                   lastNode, order>>

\* The client takes the result of a finished call and is ready for the next.
ClientContinue ==
    /\ pc \in {"node_done", "revise_done", "ac3_done", "solve_done"}
    /\ lastNode' = (pc = "node_done")
    /\ pc' = "idle"
    /\ caller' = "client"
    /\ before' = domains
    /\ call' = <<>>
    /\ reviseRet' = "-"
    /\ ac3ret' = "-"
    /\ ac3Default' = FALSE
    /\ arcsList' = NoList
    /\ order' = <<>>
    /\ btret' = Pending
    /\ result' = Pending
    /\ UNCHANGED <<cons, odv, crossword, domains, arcs, nodeDone, stack>>

Next ==
    \/ EnforceNodeConsistency
    \/ Revise
    \/ Ac3Call
    \/ Ac3Iterate
    \/ Ac3IterateList
    \/ Ac3Return
    \/ Solve
    \/ SolveAc3
    \/ SolveBacktrack
    \/ BacktrackEnter
    \/ BacktrackTry
    \/ BacktrackResume
    \/ BacktrackExhausted
    \/ ClientContinue

Spec == Init /\ [][Next]_vars

\* The client calls order_domain_values(var, assignment); the exception it
\* raises ends the client.
OrderDomainValues ==
    /\ pc = "idle"
    /\ \E var \in crossword.variables :
          \E assignment \in
                PartialAssignments(crossword.variables, domains, var) :
             LET r == order_domain_values(crossword.variables, domains, var,
                                          assignment)
             IN  /\ odv' = Odv(var, assignment, r.kind, r.value)
                 /\ pc' = IF r.kind = "list" THEN "odv_done" ELSE "raised"
    /\ UNCHANGED <<arcsList, cons, crossword, domains, caller, arcs,
                   ac3Default, ac3ret, call, reviseRet, before, nodeDone,
                   lastNode, searchVars>>

\* The client calling enforce_node_consistency, revise and
\* order_domain_values.
NextValues ==
    \/ EnforceNodeConsistency
    \/ Revise
    \/ ClientContinue
    \/ OrderDomainValues

SpecValues == Init /\ [][NextValues]_vars

\* The client calls consistent(assignment) on a dict of its own and ends.
Consistent ==
    /\ pc = "idle"
    /\ \E assignment \in Assignments(crossword) :
          \E keys \in Orders(DOMAIN assignment) :
             LET ret == consistent_outcome(keys, assignment)
             IN  /\ cons' = Cons(assignment, keys, ret)
                 /\ pc' = IF ret = "IndexError" THEN "raised"
                                               ELSE "consistent_done"
    /\ UNCHANGED <<arcsList, odv, crossword, domains, caller, arcs, ac3Default,
                   ac3ret, call, reviseRet, before, nodeDone, lastNode,
                   searchVars>>

\* The client calling consistent on a new creator.
NextConsistent == Consistent

SpecConsistent == Init /\ [][NextConsistent]_vars

\* A call of ac3 by the client, with the default arcs or a set or list, on
\* the domains enforce_node_consistency leaves of a new creator: the state
\* Ac3Call leaves.
InitAc3 ==
    /\ crossword \in Crosswords
    /\ domains = enforce_node_consistency(crossword.variables,
                                          InitDomains(crossword))
    /\ pc = "ac3"
    /\ caller = "client"
    /\ \/ /\ ac3Default = TRUE
          /\ arcs = DefaultArcs(crossword.variables)
          /\ arcsList = NoList
       \/ /\ ac3Default = FALSE
          /\ arcs \in {given \in SUBSET DefaultArcs(crossword.variables) :
                          Cardinality(given) <= MaxArcs}
          /\ arcsList = NoList
       \/ /\ ac3Default = FALSE
          /\ arcs = {}
          /\ arcsList \in {ListArcs(TRUE, list(given)) :
                              given \in ArcLists(crossword.variables)}
    /\ ac3ret = "-"
    /\ call = <<>>
    /\ reviseRet = "-"
    /\ before = domains
    /\ nodeDone = TRUE
    /\ lastNode = TRUE
    /\ order = <<>>
    /\ stack = <<>>
    /\ btret = Pending
    /\ result = Pending
    /\ odv = NoOdv
    /\ cons = NoCons

\* The steps of the call.
NextAc3 ==
    \/ Ac3Iterate
    \/ Ac3IterateList
    \/ Ac3Return

\* The program is sequential: a call of ac3 that can take its next step takes
\* it.
FairAc3 ==
    /\ InitAc3
    /\ [][NextAc3]_vars
    /\ WF_vars(Ac3Iterate)
    /\ WF_vars(Ac3IterateList)
    /\ WF_vars(Ac3Return)

\* One call of solve() on a new creator: its steps in order.
NextSolve ==
    \/ Solve
    \/ SolveAc3
    \/ Ac3Iterate
    \/ Ac3Return
    \/ SolveBacktrack
    \/ BacktrackEnter
    \/ BacktrackTry
    \/ BacktrackResume
    \/ BacktrackExhausted

\* The program is sequential: a call of solve that can take its next step
\* takes it.
FairSolve == Init /\ [][NextSolve]_vars /\ WF_vars(NextSolve)

\* ---------------------------------------------------------------- properties

\* The two words agree at the overlap of slots x and y (which have one).
Agree(x, p, y, q) ==
    LET o == overlaps(x, y) IN p[o[1] + 1] = q[o[2] + 1]

\* a is a valid filling of the puzzle cw: one word of the vocabulary per slot,
\* pairwise distinct, each of its slot's length, agreeing at every overlap.
ValidFilling(cw, a) ==
    /\ DOMAIN a = cw.variables
    /\ \A x \in cw.variables : a[x] \in cw.words /\ Len(a[x]) = x.length
    /\ \A x \in cw.variables : \A y \in cw.variables \ {x} :
          /\ a[x] /= a[y]
          /\ overlaps(x, y) /= None => Agree(x, a[x], y, a[y])

\* solve has returned an assignment.
SolveReturnedAssignment == pc = "solve_done" /\ result.kind = "assignment"

\* solve has returned None.
SolveReturnedNone == pc = "solve_done" /\ result.kind = "None"

\* C1: an assignment returned by solve has exactly one entry per slot, its
\* words are pairwise distinct, each word has its slot's length, and every
\* two slots with an overlap agree on the letter at the overlap.
C1_AssignmentValid ==
    SolveReturnedAssignment =>
        LET a == result.value
        IN  /\ DOMAIN a = crossword.variables
            /\ \A x \in DOMAIN a : Len(a[x]) = x.length
            /\ \A x \in DOMAIN a : \A y \in DOMAIN a :
                  x /= y =>
                      /\ a[x] /= a[y]
                      /\ overlaps(x, y) /= None => Agree(x, a[x], y, a[y])

\* solve returned an assignment of a puzzle of three slots, two of them crossing.
C1_Witness ==
    /\ SolveReturnedAssignment
    /\ Cardinality(crossword.variables) = 3
    /\ \E x \in crossword.variables : neighbors(crossword.variables, x) /= {}

\* C2: when solve returns None, no valid filling exists over the original
\* domains (every slot free to take any word of the vocabulary).
C2_FailureSound ==
    SolveReturnedNone =>
        ~ \E a \in [crossword.variables -> crossword.words] :
              ValidFilling(crossword, a)

\* solve returned None although every slot has a word of its length and two
\* slots cross: the failure comes from revise and the search.
C2_Witness ==
    /\ SolveReturnedNone
    /\ Cardinality(crossword.variables) >= 2
    /\ \A x \in crossword.variables :
          \E w \in crossword.words : Len(w) = x.length
    /\ \E x \in crossword.variables : neighbors(crossword.variables, x) /= {}

\* C3: when the ac3 call of solve returned False, solve returns None.
C3_Ac3FalseThenNone ==
    (pc = "solve_done" /\ ac3ret = "False") => result.kind = "None"

\* solve has returned after its ac3 call returned False.
C3_Witness ==
    /\ pc = "solve_done"
    /\ ac3ret = "False"
    /\ result.kind = "None"

\* Every word of every domain has a distinct agreeing word in the domain of
\* every slot that overlaps its own.
ArcConsistent(variables, doms) ==
    \A x \in variables : \A y \in variables \ {x} :
        overlaps(x, y) /= None =>
            \A w \in doms[x] : \E w2 \in doms[y] :
                w2 /= w /\ Agree(x, w, y, w2)

\* ac3, called with the default arcs on node-consistent domains, has returned.
Ac3DefaultReturned == ac3ret /= "-" /\ ac3Default /\ nodeDone

\* C4: when ac3 (default arcs, node-consistent domains) returns True, every
\* word of domain(x) has a different, agreeing word in domain(y), for every
\* ordered pair of overlapping slots (x, y).
C4_ArcConsistentOnTrue ==
    (Ac3DefaultReturned /\ ac3ret = "True") =>
        ArcConsistent(crossword.variables, domains)

\* ac3 returned True after removing words from crossing slots.
C4_Witness ==
    /\ Ac3DefaultReturned
    /\ ac3ret = "True"
    /\ pc = "ac3_done"
    /\ domains /= before
    /\ \E x \in crossword.variables :
          Cardinality(neighbors(crossword.variables, x)) = 2

\* C5: whatever the initial arc set, ac3 returns True iff every domain is
\* non-empty when it returns, and False iff some domain is empty then.
C5_Ac3ResultIffNonEmpty ==
    (ac3ret /= "-" /\ pc \in {"ac3_done", "backtrack"}) =>
        /\ ac3ret = "True" <=> \A var \in crossword.variables : domains[var] /= {}
        /\ ac3ret = "False" <=> \E var \in crossword.variables : domains[var] = {}

\* ac3, given an explicit arc set, returned False on a slot that overlaps no
\* other slot and whose domain node consistency had emptied.
C5_Witness ==
    /\ pc = "ac3_done"
    /\ ~ ac3Default
    /\ nodeDone
    /\ ac3ret = "False"
    /\ \E var \in crossword.variables :
          /\ neighbors(crossword.variables, var) = {}
          /\ domains[var] = {}
          /\ \A other \in crossword.variables \ {var} : domains[other] /= {}

\* C6: once enforce_node_consistency has run, every word of every domain has
\* its slot's length, in every later state of ac3 and of the search.
C6_NodeConsistent ==
    nodeDone =>
        \A s \in crossword.variables : \A w \in domains[s] : Len(w) = s.length

\* The search is running on domains from which words of the wrong length were
\* removed and words of the right length remain.
C6_Witness ==
    /\ nodeDone
    /\ pc = "search"
    /\ \E s \in crossword.variables :
          domains[s] /= {} /\ \E w \in crossword.words : Len(w) /= s.length

\* Two slots of the puzzle overlap and no two distinct words of the vocabulary
\* that fit their lengths agree at the overlap.
UnsatisfiableOverlap(cw) ==
    \E x \in cw.variables : \E y \in cw.variables \ {x} :
        /\ overlaps(x, y) /= None
        /\ ~ \E p \in cw.words : \E q \in cw.words :
                /\ p /= q
                /\ Len(p) = x.length
                /\ Len(q) = y.length
                /\ Agree(x, p, y, q)

\* C7: with such an unsatisfiable overlap, ac3 (default arcs, after node
\* consistency) returns False with some domain empty, and solve returns None.
C7_UnsatisfiableOverlap ==
    UnsatisfiableOverlap(crossword) =>
        /\ Ac3DefaultReturned =>
              /\ ac3ret = "False"
              /\ \E var \in crossword.variables : domains[var] = {}
        /\ pc = "solve_done" => result.kind = "None"

\* solve returned None on an unsatisfiable overlap between two slots that
\* each have at least two words of their length.
C7_Witness ==
    /\ UnsatisfiableOverlap(crossword)
    /\ SolveReturnedNone
    /\ ac3ret = "False"
    /\ \A x \in crossword.variables :
          Cardinality({w \in crossword.words : Len(w) = x.length}) >= 2

\* C8: a second enforce_node_consistency right after a first one leaves every
\* domain as the first one left it.
C8_NodeIdempotent ==
    (pc = "node_done" /\ lastNode) => domains = before

\* A second run has returned, the first having removed words.
C8_Witness ==
    /\ pc = "node_done"
    /\ lastNode
    /\ \E s \in crossword.variables :
          domains[s] /= crossword.words /\ domains[s] /= {}

\* C9: revise(x, y) on slots without an overlap returns False and changes no
\* domain; otherwise domain(x) becomes the words p of the old domain(x) that
\* have a q /= p in domain(y) agreeing at the overlap, no other domain
\* changes, and True is returned iff a word was removed.
C9_Revise ==
    pc = "revise_done" =>
        LET x == call[1]
            y == call[2]
        IN  IF overlaps(x, y) = None
            THEN reviseRet = "False" /\ domains = before
            ELSE /\ domains[x] =
                       {p \in before[x] :
                           \E q \in before[y] : q /= p /\ Agree(x, p, y, q)}
                 /\ \A s \in crossword.variables \ {x} : domains[s] = before[s]
                 /\ reviseRet = "True" <=> domains[x] /= before[x]

\* revise returned True having removed some but not all words of domain(x).
C9_Witness ==
    /\ pc = "revise_done"
    /\ reviseRet = "True"
    /\ domains[call[1]] /= {}
    /\ domains[call[1]] /= before[call[1]]

\* One pass over all slots that keeps the words supported in every
\* overlapping slot's domain.
ArcSweep(variables, doms) ==
    [x \in variables |->
        {p \in doms[x] :
            \A y \in neighbors(variables, x) :
                \E q \in doms[y] : q /= p /\ Agree(x, p, y, q)}]

\* The largest arc-consistent domains within doms: sweeps repeated until
\* nothing changes.  It depends on no processing order.
RECURSIVE ArcClosure(_, _)
ArcClosure(variables, doms) ==
    LET next == ArcSweep(variables, doms)
    IN  IF next = doms THEN doms ELSE ArcClosure(variables, next)

\* C10: the result of ac3 (default arcs, node-consistent domains) and, when it
\* is True, the final domains are functions of the domains ac3 started on,
\* whatever order the arcs were taken in: False iff the arc closure of the
\* starting domains has an empty domain, and on True the domains are that
\* closure.
C10_OrderIndependent ==
    (Ac3DefaultReturned /\ pc \in {"ac3_done", "backtrack"}) =>
        LET closure == ArcClosure(crossword.variables, before)
        IN  /\ ac3ret = "False" <=>
                  \E var \in crossword.variables : closure[var] = {}
            /\ ac3ret = "True" => domains = closure

\* ac3 returned True after a revision that re-enqueued arcs: the order of
\* processing was not fixed by the working set.
C10_Witness ==
    /\ Ac3DefaultReturned
    /\ pc = "ac3_done"
    /\ ac3ret = "True"
    /\ Cardinality(crossword.variables) = 3
    /\ Cardinality({s \in crossword.variables : domains[s] /= before[s]}) >= 2

\* C11: every call of ac3, whatever the arcs it starts with and the order it
\* takes them in, returns: the working set runs empty or an empty domain
\* ends the call early, although revised arcs are re-enqueued.
C11_Ac3Terminates == (pc = "ac3") ~> (pc = "ac3_done")

\* A call of ac3 on its default arcs or on a set returns.
Ac3OnSetReturns == (pc = "ac3" /\ ~ arcsList.on) ~> (pc = "ac3_done")

\* The frames of the search that have selected their slot.
SelectedFrames ==
    {k \in 1..Len(stack) : pc = "search" /\ stack[k].at /= "enter"}

\* The slots of the puzzle that the assignment a does not bind.
Unassigned(a) == crossword.variables \ DOMAIN a

\* C12: the slot select_unassigned_variable returns is not in the assignment,
\* no unassigned slot has a strictly smaller domain, and no unassigned slot
\* with a domain of the same size has strictly more neighbors.
C12_SelectMrvDegree ==
    \A k \in SelectedFrames :
        LET f == stack[k]
            v == f.var
            degree(u) == Cardinality(neighbors(crossword.variables, u))
        IN  /\ v \in Unassigned(f.assignment)
            /\ \A u \in Unassigned(f.assignment) :
                  /\ Cardinality(domains[u]) >= Cardinality(domains[v])
                  /\ Cardinality(domains[u]) = Cardinality(domains[v]) =>
                        degree(u) <= degree(v)

\* A slot was selected ahead of an unassigned slot with a domain of the same
\* size and fewer neighbors, while a third unassigned slot has a larger domain.
C12_Witness ==
    \E k \in SelectedFrames :
        LET f == stack[k]
            v == f.var
            degree(u) == Cardinality(neighbors(crossword.variables, u))
        IN  /\ \E u \in Unassigned(f.assignment) :
                  /\ Cardinality(domains[u]) = Cardinality(domains[v])
                  /\ degree(u) < degree(v)
            /\ \E u \in Unassigned(f.assignment) :
                  Cardinality(domains[u]) > Cardinality(domains[v])

\* The conflict count of the word val for the slot var under the assignment a:
\* the pairs (n, v), n a neighbor of var that a does not bind and v a word of
\* domain(n), such that val and v disagree at the overlap of var and n.
ConflictCount(var, a, val) ==
    Cardinality(
        { <<n, v>> \in
              UNION { {<<n, v>> : v \in domains[n]} :
                        n \in neighbors(crossword.variables, var) \ DOMAIN a } :
            ~ Agree(var, val, <<n, v>>[1], <<n, v>>[2]) })

\* The words of its slot's domain a frame's loop has reached.
Tried(f) == domains[f.var] \ f.todo

\* C13: the search tries the words of the selected slot in ascending order of
\* conflict count: no word is tried while a word with a strictly smaller
\* conflict count is still to be tried.
C13_LeastConstrainingFirst ==
    \A k \in SelectedFrames :
        LET f == stack[k]
        IN  \A w \in Tried(f) : \A later \in f.todo :
                ConflictCount(f.var, f.assignment, later) >=
                    ConflictCount(f.var, f.assignment, w)

\* C14: order_domain_values(slot, assignment) returns a sequence of exactly
\* the words of domain(slot), each once, in ascending order of conflict count.
C14_OrderDomainValues ==
    odv.kind /= "-" =>
        /\ odv.kind = "list"
        /\ Len(odv.value) = Cardinality(domains[odv.var])
        /\ {odv.value[k] : k \in 1..Len(odv.value)} = domains[odv.var]
        /\ \A i \in 1..Len(odv.value) : \A j \in i..Len(odv.value) :
              ConflictCount(odv.var, odv.assignment, odv.value[i]) <=
                  ConflictCount(odv.var, odv.assignment, odv.value[j])

\* The words of the pair x, y fit the claim's three conditions.
PairFits(a, x, y) ==
    /\ a[x] /= a[y]
    /\ Len(a[x]) = x.length
    /\ Len(a[y]) = y.length
    /\ overlaps(x, y) /= None =>
          a[x][overlaps(x, y)[1] + 1] = a[y][overlaps(x, y)[2] + 1]

\* C15: consistent(assignment) returns True iff for every pair of distinct
\* slots of the assignment the words differ, each word has its slot's length,
\* and the words agree at the overlap when there is one, also at (0, 0).
C15_Consistent ==
    cons.ret /= "-" =>
        ((cons.ret = "True") <=>
            \A x \in DOMAIN cons.assignment :
               \A y \in DOMAIN cons.assignment \ {x} :
                  PairFits(cons.assignment, x, y))

\* consistent returned True for two slots that cross at offsets (0, 0), and
\* the same creator can be asked about words of other lengths.
C15_Witness ==
    /\ cons.ret = "True"
    /\ \E x \in DOMAIN cons.assignment : \E y \in DOMAIN cons.assignment :
          x /= y /\ overlaps(x, y) = <<0, 0>>
    /\ \E w \in crossword.words : Len(w) = 2
    /\ \E w \in crossword.words : Len(w) = 3

\* C16: from the entry of the search until solve returns, every slot's domain
\* is the one ac3 left: the search adds and removes no word.
C16_SearchKeepsDomains ==
    pc \in {"search", "solve_done"} => domains = before

\* solve has returned after a search that met an inconsistent extension and
\* a failed recursive call, and the store is the one ac3 left.
C16_Witness ==
    /\ pc = "solve_done"
    /\ domains = before
    /\ Cardinality(crossword.variables) >= 2
    /\ result.kind = "None"
    /\ \A s \in crossword.variables : domains[s] /= {}
    /\ \E s \in crossword.variables : domains[s] /= crossword.words

\* A step of ac3's loop in which revise changed the domain of the popped
\* arc's first slot and left it non-empty.
RevisedNonEmptyStep ==
    /\ pc = "ac3"
    /\ \E x \in crossword.variables :
          domains'[x] /= domains[x] /\ domains'[x] /= {}

\* The slot whose domain the step revised.
RevisedSlot(a) == domains'[a[1]] /= domains[a[1]]

\* The arcs (n, x) for the neighbors n of x other than y, for the arc (x, y).
Inward(a) ==
    { <<n, a[1]>> : n \in neighbors(crossword.variables, a[1]) \ {a[2]} }

\* The working list after the step is the list without the arc popped,
\* followed by the arcs of the set added, in some order.
ListGained(added) ==
    LET items == arcsList.items
        rest == SubSeq(items, 1, Len(items) - 1)
        after == arcsList'.items
    IN  /\ Len(after) = Len(rest) + Cardinality(added)
        /\ SubSeq(after, 1, Len(rest)) = rest
        /\ {after[k] : k \in (Len(rest) + 1)..Len(after)} = added

\* C17: when revise(x, y) changed domain(x) and left it non-empty, the step
\* adds the arcs (n, x) for the neighbors n of x other than y to the working
\* set, and no other arc.
C17_RequeueInwardOnly ==
    [][RevisedNonEmptyStep =>
        /\ pc' = "ac3"
        /\ IF arcsList.on
           THEN /\ RevisedSlot(arcsList.items[Len(arcsList.items)])
                /\ ListGained(Inward(arcsList.items[Len(arcsList.items)]))
           ELSE \E a \in arcs \ arcs' :
                   /\ RevisedSlot(a)
                   /\ arcs' = (arcs \ {a}) \cup Inward(a)
      ]_vars

\* On a set, such a step adds the arcs (n, x) and (x, n) for the neighbors n
\* of x other than y, and no other arc.
RequeueBothWaysOnSet ==
    [][(RevisedNonEmptyStep /\ ~ arcsList.on) =>
        /\ pc' = "ac3"
        /\ \E a \in arcs \ arcs' :
              /\ RevisedSlot(a)
              /\ arcs' = (arcs \ {a}) \cup
                     UNION { {<<n, a[1]>>, <<a[1], n>>} :
                         n \in neighbors(crossword.variables, a[1]) \ {a[2]} }
      ]_vars

\* On a list, such a step of a slot with a neighbor other than y raises.
RaisesOnList ==
    [][(RevisedNonEmptyStep /\ arcsList.on) =>
        LET a == arcsList.items[Len(arcsList.items)]
        IN  IF neighbors(crossword.variables, a[1]) \ {a[2]} = {}
            THEN pc' = "ac3"
            ELSE pc' = "raised"
      ]_vars

\* The nested call k of backtrack was given its caller's assignment and one
\* binding more, of the slot the caller selected, a slot of the puzzle the
\* caller's assignment does not bind.
OneMoreSlot(k) ==
    LET parent == stack[k - 1].assignment
        child == stack[k].assignment
        var == stack[k - 1].var
    IN  /\ var \in crossword.variables
        /\ var \notin DOMAIN parent
        /\ DOMAIN child = DOMAIN parent \cup {var}
        /\ \A s \in DOMAIN parent : child[s] = parent[s]

\* The calls of backtrack in progress are at most one per slot and the
\* initial one, each nested call binding one more slot than its caller.
BoundedDepth ==
    /\ Len(stack) <= Cardinality(crossword.variables) + 1
    /\ \A k \in 2..Len(stack) : OneMoreSlot(k)

\* C18: the search terminates, and its recursion depth never exceeds the
\* number of slots plus the initial call: each nested call's assignment binds
\* exactly one more slot than its caller's, a puzzle slot not bound before.
C18_SearchTerminatesBounded ==
    /\ [] BoundedDepth
    /\ (pc = "search") ~> (pc = "solve_done")

\* The search is at its deepest on a puzzle of three slots: one call per slot
\* and the initial call.
C18_Witness ==
    /\ pc = "search"
    /\ Cardinality(crossword.variables) = 3
    /\ Len(stack) = 4
    /\ \A k \in 2..Len(stack) : OneMoreSlot(k)

\* C19: exploring its candidates never changes a frame's assignment: every
\* call of backtrack in progress before and after a step (an inconsistent
\* extension, a recursive call, its return) holds the assignment it held.
C19_FrameAssignmentKept ==
    [][\A k \in 1..Len(stack) :
          k <= Len(stack') => stack'[k].assignment = stack[k].assignment
      ]_vars

\* A recursive call has just failed in a nested frame that has a candidate
\* left: the frame's assignment still lacks the slot it is trying words for.
C19_Witness ==
    /\ pc = "search"
    /\ Len(stack) >= 2
    /\ Top.at = "wait"
    /\ btret.kind = "None"
    /\ Top.todo /= {}
    /\ Top.var \notin DOMAIN Top.assignment
    /\ DOMAIN Top.assignment = {stack[Len(stack) - 1].var}

====
